---------------------------- MODULE Spec2Model ----------------------------
(***************************************************************************)
(* Model of internal/ingress/controller/kong.go: the reconciliation        *)
(* pipeline of the Kong ingress controller (KongController.OnUpdate and    *)
(* the functions it calls).                                                *)
(*                                                                         *)
(* Representation.                                                         *)
(*  - A Go string is a sequence of bytes (small naturals); "" is << >>.    *)
(*  - An optional pointer field is << >> (nil) or <<v>>.  A plugin's Name  *)
(*    is the string the pointer points to, NameNil telling a nil pointer   *)
(*    from a pointer to "".                                                *)
(*  - A plugin's Config (map[string]interface{}) is a function from keys   *)
(*    to values; a nil map and an empty map are the same function (the     *)
(*    code ranges over, fills and marshals both alike).  Values are the    *)
(*    tokens of ConfigValues.                                              *)
(*  - A byte slice holding JSON ([]byte) is a record [kind, pairs].        *)
(*  - A Go int that can be large (a route's regex priority) is a record    *)
(*    [hi, lo] standing for hi * 2^30 + lo, with 0 <= lo < 2^30.           *)
(***************************************************************************)
EXTENDS Naturals, Integers, Sequences, FiniteSets, TLC

VARIABLES
    cfg,                \* n.cfg: the static deployment configuration
    runningConfigHash,  \* n.runningConfigHash
    gateway,            \* the configuration the Kong gateway currently holds
    last,               \* record of the most recent OnUpdate invocation
    settled             \* the caller's side: whether the desired state and the
                        \* custom entities have stopped changing and the calls
                        \* to the gateway have stopped failing

vars == <<cfg, runningConfigHash, gateway, last, settled>>

-----------------------------------------------------------------------------
(* Strings and sorting                                                     *)

\* strings.Compare: byte-wise lexicographic comparison, -1 / 0 / 1.
RECURSIVE StringsCompare(_, _)
StringsCompare(s, t) ==
    IF s = << >> THEN (IF t = << >> THEN 0 ELSE -1)
    ELSE IF t = << >> THEN 1
    ELSE IF Head(s) < Head(t) THEN -1
    ELSE IF Head(s) > Head(t) THEN 1
    ELSE StringsCompare(Tail(s), Tail(t))

\* A comparison that also puts a key before an equal one.
lessFnOrEqual(a, b) == StringsCompare(a, b) <= 0

\* lessFn of sortByString.
lessFn(a, b) == StringsCompare(a, b) < 0

\* Insert index i into the index sequence perm (already stably sorted by
\* keys), after every index whose key is not greater: what a stable sort
\* does with an element that came last.
RECURSIVE InsertStable(_, _, _)
InsertStable(perm, i, keys) ==
    IF perm = << >> THEN <<i>>
    ELSE IF lessFn(keys[i], keys[Head(perm)]) THEN <<i>> \o perm
    ELSE <<Head(perm)>> \o InsertStable(Tail(perm), i, keys)

\* sort.SliceStable on the indices 1..n of keys.
RECURSIVE StablePerm(_, _)
StablePerm(keys, n) ==
    IF n = 0 THEN << >>
    ELSE InsertStable(StablePerm(keys, n - 1), n, keys)

\* sortByString(slice, fieldFn): fieldFn[i] is the key of slice[i].
sortByString(slice, fieldFn) ==
    LET perm == StablePerm(fieldFn, Len(slice))
    IN  [i \in 1..Len(slice) |-> slice[perm[i]]]

-----------------------------------------------------------------------------
(* Plugin schemas and default filling                                      *)

\* Byte strings used as names.
sa == <<1>>
sb == <<2>>
sab == <<1, 2>>
sba == <<2, 1>>

\* Values a plugin config entry can hold: JSON null, two scalars, and a Go
\* value encoding/json cannot marshal.
ConfigValues == {"null", "1", "2", "unsupported"}

\* The plugin schemas the gateway knows: per plugin name, the default of
\* each config field ("null": the field has no default), and whether the
\* schema document is one the default-merger can process.
SchemaTable ==
    [n \in {sa, sb, sab} |->
        IF n = sa THEN [fields |-> [k \in {"x", "y"} |-> IF k = "x" THEN "1" ELSE "null"],
                        wellFormed |-> TRUE]
        ELSE IF n = sb THEN [fields |-> [k \in {"x"} |-> "2"], wellFormed |-> TRUE]
        ELSE [fields |-> [k \in {"x"} |-> "1"], wellFormed |-> FALSE]]

\* n.PluginSchemaStore.Schema(ctx, name): a lookup at the gateway's admin
\* API; it fails when the service does not answer (schemaUp = FALSE) or
\* does not know the plugin.
Schema(schemaUp, name) ==
    IF ~schemaUp \/ name \notin DOMAIN SchemaTable
    THEN [err |-> TRUE, schema |-> [fields |-> << >>, wellFormed |-> TRUE]]
    ELSE [err |-> FALSE, schema |-> SchemaTable[name]]

\* fill(schema, config): the schema's defaults merged under the entries the
\* user set; fails on a schema it cannot process.
fill(schema, config) ==
    IF ~schema.wellFormed THEN [err |-> TRUE, config |-> config]
    ELSE [err |-> FALSE,
          config |-> [k \in DOMAIN config \cup DOMAIN schema.fields |->
                        IF k \in DOMAIN config THEN config[k] ELSE schema.fields[k]]]

\* fillPlugin: [err, plugin], plugin being *plugin as the function leaves it.
fillPlugin(schemaUp, plugin) ==
    IF plugin.NameNil \/ plugin.Name = << >> THEN [err |-> TRUE, plugin |-> plugin]
    ELSE LET s == Schema(schemaUp, plugin.Name) IN
         IF s.err THEN [err |-> TRUE, plugin |-> plugin]
         ELSE LET f == fill(s.schema, plugin.Config) IN
              IF f.err THEN [err |-> TRUE, plugin |-> plugin]
              ELSE [err |-> FALSE,
                    plugin |-> [plugin EXCEPT
                        !.Config = f.config,
                        !.Enabled = IF @ = << >> THEN <<TRUE>> ELSE @,
                        !.Protocols = IF Len(@) = 0 THEN <<"http", "https">> ELSE @,
                        !.RunOn = << >>]]

\* A completion that writes the defaults over whatever the route holds.
fillRouteOverwrites(route) ==
    [route EXCEPT !.HTTPSRedirectStatusCode = <<426>>, !.PathHandling = <<"v0">>]

\* fillRoute
fillRoute(route) ==
    [route EXCEPT
        !.HTTPSRedirectStatusCode = IF @ = << >> THEN <<426>> ELSE @,
        !.PathHandling = IF @ = << >> THEN <<"v0">> ELSE @]

\* fillUpstream
fillUpstream(upstream) ==
    [upstream EXCEPT !.Algorithm = IF @ = << >> THEN <<"round-robin">> ELSE @]

\* pluginString: name, then the consumer, route and service ids that are set.
pluginString(plugin) ==
    plugin.Name \o plugin.ConsumerID \o plugin.RouteID \o plugin.ServiceID

-----------------------------------------------------------------------------
(* Rendering the desired state: toDeckContent                              *)

FormatVersion == "1.1"

\* getIngressControllerTags
getIngressControllerTags(c) ==
    IF c.HasTagSupport THEN c.FilterTags ELSE << >>

\* The plugin loop of a service or of a route: deep copy, fillPlugin (an
\* error is logged and the plugin kept as it is), append, sort by name.
RECURSIVE RenderOwnedPlugins(_, _, _)
RenderOwnedPlugins(schemaUp, plugins, acc) ==
    IF plugins = << >> THEN acc
    ELSE LET plugin == fillPlugin(schemaUp, Head(plugins)).plugin
             appended == Append(acc, plugin)
         IN  RenderOwnedPlugins(schemaUp, Tail(plugins),
                 sortByString(appended, [i \in 1..Len(appended) |-> appended[i].Name]))

\* One route of a service: fillRoute, then its plugins.
RenderRoute(schemaUp, r) ==
    [fillRoute([Name |-> r.Name,
                HTTPSRedirectStatusCode |-> r.HTTPSRedirectStatusCode,
                PathHandling |-> r.PathHandling,
                RegexPriority |-> r.RegexPriority,
                Plugins |-> << >>])
        EXCEPT !.Plugins = RenderOwnedPlugins(schemaUp, r.Plugins, << >>)]

\* One service: its plugins, its routes sorted by name.
RenderService(schemaUp, s) ==
    LET routes == [i \in 1..Len(s.Routes) |-> RenderRoute(schemaUp, s.Routes[i])]
    IN  [Name |-> s.Name,
         Plugins |-> RenderOwnedPlugins(schemaUp, s.Plugins, << >>),
         Routes |-> sortByString(routes, [i \in 1..Len(routes) |-> routes[i].Name])]

\* The top-level plugins: a shallow copy, fillPlugin, sorted by pluginString.
RenderPlugins(schemaUp, plugins) ==
    LET filled == [i \in 1..Len(plugins) |-> fillPlugin(schemaUp, plugins[i]).plugin]
    IN  sortByString(filled, [i \in 1..Len(filled) |-> pluginString(filled[i])])

\* One upstream: fillUpstream, its targets sorted by address.
RenderUpstream(u) ==
    LET upstream == fillUpstream([Name |-> u.Name, Algorithm |-> u.Algorithm])
    IN  [Name |-> upstream.Name,
         Algorithm |-> upstream.Algorithm,
         Targets |-> sortByString(u.Targets, [i \in 1..Len(u.Targets) |-> u.Targets[i].Target])]

\* getSNIs
getSNIs(names) == [i \in 1..Len(names) |-> [Name |-> names[i]]]

\* getFCertificateFromKongCert
getFCertificateFromKongCert(kongCert) ==
    [ID |-> kongCert.ID, Key |-> kongCert.Key, Cert |-> kongCert.Cert,
     SNIs |-> getSNIs(kongCert.SNIs)]

\* One consumer: its plugins as they are, each credential list sorted.
RenderConsumer(c) ==
    [Username |-> c.Username,
     Plugins |-> c.Plugins,
     KeyAuths |-> sortByString(c.KeyAuths, [i \in 1..Len(c.KeyAuths) |-> c.KeyAuths[i].Key]),
     HMACAuths |-> sortByString(c.HMACAuths, [i \in 1..Len(c.HMACAuths) |-> c.HMACAuths[i].Username]),
     BasicAuths |-> sortByString(c.BasicAuths, [i \in 1..Len(c.BasicAuths) |-> c.BasicAuths[i].Username]),
     JWTAuths |-> sortByString(c.JWTAuths, [i \in 1..Len(c.JWTAuths) |-> c.JWTAuths[i].Key]),
     Oauth2Creds |-> sortByString(c.Oauth2Creds, [i \in 1..Len(c.Oauth2Creds) |-> c.Oauth2Creds[i].ClientID])]

\* toDeckContent: the file.Content rendered from the desired state.  Routes
\* is the document's top-level route list, which this function never fills
\* (routes are nested under their service).
toDeckContent(c, schemaUp, k8sState) ==
    LET services == [i \in 1..Len(k8sState.Services) |-> RenderService(schemaUp, k8sState.Services[i])]
        upstreams == [i \in 1..Len(k8sState.Upstreams) |-> RenderUpstream(k8sState.Upstreams[i])]
        certs == [i \in 1..Len(k8sState.Certificates) |->
                    getFCertificateFromKongCert(k8sState.Certificates[i])]
        cacerts == k8sState.CACertificates
        consumers == [i \in 1..Len(k8sState.Consumers) |-> RenderConsumer(k8sState.Consumers[i])]
        selectorTags == getIngressControllerTags(c)
    IN  [FormatVersion |-> FormatVersion,
         Info |-> IF Len(selectorTags) > 0 THEN <<[SelectorTags |-> selectorTags]>> ELSE << >>,
         Services |-> sortByString(services, [i \in 1..Len(services) |-> services[i].Name]),
         Routes |-> << >>,
         Plugins |-> RenderPlugins(schemaUp, k8sState.Plugins),
         Upstreams |-> sortByString(upstreams, [i \in 1..Len(upstreams) |-> upstreams[i].Name]),
         Certificates |-> sortByString(certs, [i \in 1..Len(certs) |-> certs[i].Cert]),
         CACertificates |-> sortByString(cacerts, [i \in 1..Len(cacerts) |-> cacerts[i].Cert]),
         Consumers |-> sortByString(consumers, [i \in 1..Len(consumers) |-> consumers[i].Username])]

-----------------------------------------------------------------------------
(* JSON: encoding/json on file.Content and on map[string]interface{}       *)

\* The top-level keys a document can carry, in the byte order in which
\* json.Marshal writes the keys of a map.
KeyOrder ==
    <<"_format_version", "_info", "ca_certificates", "certificates", "consumers",
      "extra", "plugins", "routes", "services", "upstreams">>

\* A JSON value under a top-level key: one marshalled from the core
\* document (core) or one taken from the custom-entity blob (blob).
CoreValue(v) == [blob |-> "", core |-> v]
BlobValue(t) == [blob |-> t, core |-> << >>]

\* The plugin configs of a document, wherever they hang.
RECURSIVE ConfigsOfPlugins(_)
ConfigsOfPlugins(plugins) ==
    IF plugins = << >> THEN {}
    ELSE {Head(plugins).Config} \cup ConfigsOfPlugins(Tail(plugins))

RECURSIVE ConfigsOfOwners(_)
ConfigsOfOwners(owners) ==
    IF owners = << >> THEN {}
    ELSE ConfigsOfPlugins(Head(owners).Plugins) \cup ConfigsOfOwners(Tail(owners))

RECURSIVE ConfigsOfServices(_)
ConfigsOfServices(services) ==
    IF services = << >> THEN {}
    ELSE ConfigsOfPlugins(Head(services).Plugins)
         \cup ConfigsOfOwners(Head(services).Routes)
         \cup ConfigsOfServices(Tail(services))

ConfigsOf(content) ==
    ConfigsOfServices(content.Services) \cup ConfigsOfOwners(content.Routes)
    \cup ConfigsOfPlugins(content.Plugins) \cup ConfigsOfOwners(content.Consumers)

\* The fields of file.Content in the struct's order, each omitted when
\* empty (omitempty), as <<key, value>>.
Sections(content) ==
    LET field(k, v) == IF v = << >> THEN << >> ELSE <<<<k, CoreValue(v)>>>>
    IN  field("_format_version", <<content.FormatVersion>>)
        \o field("_info", content.Info)
        \o field("services", content.Services)
        \o field("routes", content.Routes)
        \o field("upstreams", content.Upstreams)
        \o field("certificates", content.Certificates)
        \o field("ca_certificates", content.CACertificates)
        \o field("plugins", content.Plugins)
        \o field("consumers", content.Consumers)

\* Whether encoding/json can encode every value of the document.
Encodable(content) ==
    \A c \in ConfigsOf(content) : \A k \in DOMAIN c : c[k] # "unsupported"

\* json.Marshal(*file.Content): [err, doc], doc being the sequence of
\* <<key, value>> written.
MarshalContent(content) ==
    IF Encodable(content) THEN [err |-> FALSE, doc |-> Sections(content)]
    ELSE [err |-> TRUE, doc |-> << >>]

\* The keys of a document.
DocKeys(doc) == {doc[i][1] : i \in 1..Len(doc)}

\* An int hi * 2^30 + lo.
GoInt(hi, lo) == [hi |-> hi, lo |-> lo]

\* A JSON number decoded into interface{} is a float64: an integer below
\* 2^53 is kept, one from 2^53 up to 2^54 is rounded to the nearest even
\* integer, a tie going to the multiple of four.
Float64(n) ==
    IF n.hi < 2^23 THEN n
    ELSE LET lo == IF n.lo % 4 = 1 THEN n.lo - 1
                   ELSE IF n.lo % 4 = 3 THEN n.lo + 1
                   ELSE n.lo
         IN  IF lo = 2^30 THEN GoInt(n.hi + 1, 0) ELSE GoInt(n.hi, lo)

\* A value under a top-level key as json.Unmarshal decodes it into
\* interface{}: the numbers in it become float64.
DecodeRoute(r) ==
    [r EXCEPT !.RegexPriority = IF @ = << >> THEN @ ELSE <<Float64(@[1])>>]

DecodeService(s) ==
    [s EXCEPT !.Routes = [i \in 1..Len(s.Routes) |-> DecodeRoute(s.Routes[i])]]

DecodeValue(k, v) ==
    IF k = "services" /\ v.blob = ""
    THEN [v EXCEPT !.core = [i \in 1..Len(v.core) |-> DecodeService(v.core[i])]]
    ELSE v

\* json.Unmarshal of a JSON object into map[string]interface{}: the map
\* from each key to its decoded value (the last one, should a key repeat).
UnmarshalObject(doc) ==
    [k \in DocKeys(doc) |->
        LET i == CHOOSE i \in 1..Len(doc) :
                    doc[i][1] = k /\ \A j \in (i + 1)..Len(doc) : doc[j][1] # k
        IN  DecodeValue(k, doc[i][2])]

\* json.Marshal(map[string]interface{}): the entries in key order.
RECURSIVE MarshalMapFrom(_, _)
MarshalMapFrom(m, i) ==
    IF i > Len(KeyOrder) THEN << >>
    ELSE (IF KeyOrder[i] \in DOMAIN m THEN <<<<KeyOrder[i], m[KeyOrder[i]]>>>> ELSE << >>)
         \o MarshalMapFrom(m, i + 1)

MarshalMap(m) == MarshalMapFrom(m, 1)

\* Byte slices holding custom entities: nil, zero length, text that is not
\* a JSON object ("garbage"), the JSON literal null, or a JSON object with
\* the members pairs.
NilBytes == [kind |-> "nil", pairs |-> << >>]
EmptyBytes == [kind |-> "empty", pairs |-> << >>]
GarbageBytes == [kind |-> "garbage", pairs |-> << >>]
NullBytes == [kind |-> "null", pairs |-> << >>]
ObjectBytes(pairs) == [kind |-> "object", pairs |-> pairs]

\* len(b) for a byte slice.
len(b) == IF b.kind \in {"nil", "empty"} THEN 0 ELSE 1 + Len(b.pairs)

\* json.Unmarshal(customEntitiesJSONBytes, &customEntities): [err, map];
\* null leaves the map nil (no key), anything but an object or null fails.
UnmarshalCustom(b) ==
    IF b.kind = "object" THEN [err |-> FALSE, map |-> UnmarshalObject(b.pairs)]
    ELSE IF b.kind = "null" THEN [err |-> FALSE, map |-> << >>]
    ELSE [err |-> TRUE, map |-> << >>]

-----------------------------------------------------------------------------
(* generateSHA, cleanUpNullsInPluginConfigs, renderConfigWithCustomEntities *)

\* sha256.Sum256, taken to be collision free: the digest stands for the
\* bytes it was computed from.
Sum256(bytes) == <<[sha256 |-> bytes]>>

\* generateSHA: [err, sum] over the document's JSON followed by the custom
\* entity bytes (nil and zero-length bytes both add nothing).
generateSHA(targetContent, customEntities) ==
    LET m == MarshalContent(targetContent)
    IN  IF m.err THEN [err |-> TRUE, sum |-> << >>]
        ELSE [err |-> FALSE,
              sum |-> Sum256([json |-> m.doc,
                              custom |-> IF len(customEntities) = 0
                                         THEN EmptyBytes ELSE customEntities])]

\* The inner loop: delete(p.Config, k) for every k whose value is nil.
DeleteNulls(config) ==
    [k \in {k \in DOMAIN config : config[k] # "null"} |-> config[k]]

CleanPlugins(plugins) ==
    [i \in 1..Len(plugins) |-> [plugins[i] EXCEPT !.Config = DeleteNulls(@)]]

CleanOwners(owners) ==
    [i \in 1..Len(owners) |-> [owners[i] EXCEPT !.Plugins = CleanPlugins(@)]]

\* cleanUpNullsInPluginConfigs: the plugins of each service; inside the
\* loop over the services, the plugins of each of state.Routes (the
\* document's top-level routes, not the service's own); the plugins of
\* each consumer; the top-level plugins.
cleanUpNullsInPluginConfigs(state) ==
    [state EXCEPT
        !.Services = CleanOwners(@),
        !.Routes = IF Len(state.Services) > 0 THEN CleanOwners(@) ELSE @,
        !.Consumers = CleanOwners(@),
        !.Plugins = CleanPlugins(@)]

\* A merge in which a key of the custom entities replaces the core's.
renderCustomEntitiesFirst(state, customEntitiesJSONBytes) ==
    LET kongCoreConfig == MarshalContent(state)
        mergeMap == UnmarshalObject(kongCoreConfig.doc)
        customEntities == UnmarshalCustom(customEntitiesJSONBytes)
        merged == IF customEntities.err THEN mergeMap
                  ELSE [k \in DOMAIN mergeMap \cup DOMAIN customEntities.map |->
                            IF k \in DOMAIN customEntities.map THEN customEntities.map[k]
                            ELSE mergeMap[k]]
    IN  IF kongCoreConfig.err THEN [err |-> TRUE, config |-> << >>]
        ELSE IF len(customEntitiesJSONBytes) = 0
             THEN [err |-> FALSE, config |-> kongCoreConfig.doc]
             ELSE [err |-> FALSE, config |-> MarshalMap(merged)]

\* A rendering that returns the error of unmarshalling the custom entities.
renderStrict(state, customEntitiesJSONBytes) ==
    LET kongCoreConfig == MarshalContent(state)
        mergeMap == UnmarshalObject(kongCoreConfig.doc)
        customEntities == UnmarshalCustom(customEntitiesJSONBytes)
        merged == [k \in DOMAIN mergeMap \cup DOMAIN customEntities.map |->
                        IF k \in DOMAIN mergeMap THEN mergeMap[k]
                        ELSE customEntities.map[k]]
    IN  IF kongCoreConfig.err THEN [err |-> TRUE, config |-> << >>]
        ELSE IF len(customEntitiesJSONBytes) = 0
             THEN [err |-> FALSE, config |-> kongCoreConfig.doc]
             ELSE IF customEntities.err THEN [err |-> TRUE, config |-> << >>]
             ELSE [err |-> FALSE, config |-> MarshalMap(merged)]

\* renderConfigWithCustomEntities: [err, config].
renderConfigWithCustomEntities(state, customEntitiesJSONBytes) ==
    LET kongCoreConfig == MarshalContent(state)
        mergeMap == UnmarshalObject(kongCoreConfig.doc)
        customEntities == UnmarshalCustom(customEntitiesJSONBytes)
        merged == IF customEntities.err THEN mergeMap
                  ELSE [k \in DOMAIN mergeMap \cup DOMAIN customEntities.map |->
                            IF k \in DOMAIN mergeMap THEN mergeMap[k]
                            ELSE customEntities.map[k]]
    IN  IF kongCoreConfig.err THEN [err |-> TRUE, config |-> << >>]
        ELSE IF len(customEntitiesJSONBytes) = 0
             THEN [err |-> FALSE, config |-> kongCoreConfig.doc]
             ELSE [err |-> FALSE, config |-> MarshalMap(merged)]

-----------------------------------------------------------------------------
(* The collaborators: secret store and gateway                             *)

\* utils.ParseNameNS: a reference is the sequence of its "/"-separated
\* parts; it parses when there are exactly two.
ParseNameNS(ref) == [err |-> Len(ref) # 2]

\* What n.store.GetSecret can answer: an error, or the secret's Data.
GetSecretError == [err |-> TRUE, Data |-> << >>]
SecretWith(data) == [err |-> FALSE, Data |-> data]

\* fetchCustomEntities: [err, config]; err is "" or the failing step.
fetchCustomEntities(c, secret) ==
    IF ParseNameNS(c.KongCustomEntitiesSecret).err
    THEN [err |-> "parse", config |-> NilBytes]
    ELSE IF secret.err THEN [err |-> "fetch", config |-> NilBytes]
    ELSE IF "config" \notin DOMAIN secret.Data THEN [err |-> "nokey", config |-> NilBytes]
    ELSE [err |-> "", config |-> secret.Data["config"]]

\* The gateway's configuration: what it holds at start, a configuration
\* it applied as a whole, or one it applied in part on the way to doc.
InitialGateway == [kind |-> "initial", doc |-> << >>]
Applied(doc) == [kind |-> "config", doc |-> UnmarshalObject(doc)]
PartlyApplied(doc) == [kind |-> "partial", doc |-> UnmarshalObject(doc)]

\* How the POST to /config can end: applied and answered 2xx ("ok"), not
\* applied and failed ("rejected"), applied but the call failed all the
\* same, e.g. cancelled while the answer was on its way ("lost").
PostOutcomes == {"ok", "rejected", "lost"}

\* onUpdateInMemoryMode: [err, steps, config, gateway]; err is "" or the
\* failing step, steps the calls made, config the body posted.
onUpdateInMemoryMode(state, customEntities, gw, post) ==
    LET cleaned == cleanUpNullsInPluginConfigs([state EXCEPT !.Info = << >>])
        r == renderConfigWithCustomEntities(cleaned, customEntities)
    IN  IF r.err
        THEN [err |-> "render", steps |-> <<"render">>, config |-> << >>, gateway |-> gw]
        ELSE [err |-> IF post = "ok" THEN "" ELSE "post",
              steps |-> <<"render", "newRequest", "post">>,
              config |-> r.config,
              gateway |-> IF post = "rejected" THEN gw ELSE Applied(r.config)]

\* The steps of onUpdateDBMode, in the order of the code.
DBSteps == <<"dump", "currentState", "fileGet", "targetState", "newSyncer", "solve">>

\* How a Diff-Apply pass can end: a step before the solver fails, the
\* solver reports errors having applied nothing, a part or all of the
\* plan, or all succeeds.
DBOutcomes ==
    {"dump", "currentState", "fileGet", "targetState", "newSyncer",
     "solveNone", "solvePartial", "solveAll", "ok"}

\* A pass that goes on to the solver after an earlier step failed, and
\* returns that step's error.
onUpdateDBModeSolvesAnyway(targetContent, gw, out) ==
    [err |-> IF out \in {"solveNone", "solvePartial", "solveAll"} THEN "solve"
             ELSE IF out = "ok" THEN "" ELSE out,
     steps |-> DBSteps,
     config |-> << >>,
     gateway |-> IF out \in {"solveNone"} THEN gw ELSE PartlyApplied(Sections(targetContent))]

\* onUpdateDBMode: [err, steps, config, gateway]; no body is posted, so
\* config is empty.  The deck collaborators decide how the pass ends (out);
\* a configuration that cannot be encoded cannot be sent to the gateway in
\* full.
onUpdateDBMode(targetContent, gw, out) ==
    LET target == Sections(targetContent)
        failing == IF out \in {"solveNone", "solvePartial", "solveAll"} THEN "solve"
                   ELSE IF out = "ok" THEN "" ELSE out
        reached == IF failing = "" THEN Len(DBSteps)
                   ELSE CHOOSE i \in 1..Len(DBSteps) : DBSteps[i] = failing
    IN  [err |-> failing,
         steps |-> SubSeq(DBSteps, 1, reached),
         config |-> << >>,
         gateway |-> IF out \in {"ok", "solveAll"} THEN Applied(target)
                     ELSE IF out = "solvePartial" /\ gw # Applied(target)
                          THEN PartlyApplied(target)
                     ELSE gw]

\* The outcomes the collaborators can produce for a document.
DBOutcomesFor(targetContent) ==
    IF Encodable(targetContent) THEN DBOutcomes ELSE DBOutcomes \ {"ok", "solveAll"}

-----------------------------------------------------------------------------
(* Desired states, configurations and environment                          *)

Plugin(name, config) ==
    [Name |-> name, NameNil |-> FALSE, Config |-> config, RunOn |-> << >>, Enabled |-> << >>,
     Protocols |-> << >>, ConsumerID |-> << >>, RouteID |-> << >>, ServiceID |-> << >>]

Route(name, code, priority, plugins) ==
    [Name |-> name, HTTPSRedirectStatusCode |-> code, PathHandling |-> << >>,
     RegexPriority |-> priority, Plugins |-> plugins]

Consumer(username, plugins, keys) ==
    [Username |-> username, Plugins |-> plugins,
     KeyAuths |-> [i \in 1..Len(keys) |-> [Key |-> keys[i]]],
     HMACAuths |-> << >>, BasicAuths |-> << >>, JWTAuths |-> << >>, Oauth2Creds |-> << >>]

EmptyState ==
    [Services |-> << >>, Plugins |-> << >>, Upstreams |-> << >>,
     Certificates |-> << >>, CACertificates |-> << >>, Consumers |-> << >>]

\* A state with every kind of entity, siblings out of order, a null in a
\* plugin config at each place a plugin can hang, and a route whose regex
\* priority is 2^53 + 1.
FullState ==
    [Services |->
        <<[Name |-> sb,
           Plugins |-> <<Plugin(sb, [k \in {"x"} |-> "null"]), Plugin(sa, << >>)>>,
           Routes |-> <<Route(sb, <<301>>, <<GoInt(2^23, 1)>>,
                              <<Plugin(sb, [k \in {"z"} |-> "null"])>>),
                        Route(sa, << >>, <<GoInt(0, 10)>>, <<Plugin(sa, << >>)>>)>>],
          [Name |-> sa, Plugins |-> << >>, Routes |-> << >>]>>,
     Plugins |-> <<[Plugin(sb, [k \in {"z"} |-> "null"]) EXCEPT !.RunOn = <<"first">>],
                   [Plugin(sa, << >>) EXCEPT !.ConsumerID = sb]>>,
     Upstreams |-> <<[Name |-> sb, Algorithm |-> << >>,
                      Targets |-> <<[Target |-> sb], [Target |-> sa]>>],
                     [Name |-> sa, Algorithm |-> <<"least-connections">>, Targets |-> << >>]>>,
     Certificates |-> <<[ID |-> << >>, Key |-> <<sb>>, Cert |-> sb, SNIs |-> <<sa>>],
                        [ID |-> <<sa>>, Key |-> <<sa>>, Cert |-> sa, SNIs |-> << >>]>>,
     CACertificates |-> <<[Cert |-> sb], [Cert |-> sa]>>,
     Consumers |-> <<Consumer(sb, <<Plugin(sb, [k \in {"z"} |-> "null"]), Plugin(sa, << >>)>>,
                              <<sb, sa>>),
                     Consumer(sa, << >>, << >>)>>]

\* A state with one service only.
ServiceState ==
    [EmptyState EXCEPT !.Services = <<[Name |-> sa, Plugins |-> << >>, Routes |-> << >>]>>]

\* A state holding a config value json cannot encode, in a plugin the
\* gateway has no schema for.
UnencodableState ==
    [EmptyState EXCEPT !.Plugins = <<Plugin(sba, [k \in {"x"} |-> "unsupported"])>>]

\* The desired states the trigger can hand to OnUpdate, and how many of
\* them it does.
StateList == <<FullState, EmptyState, UnencodableState, ServiceState>>
MaxDesiredStates == 3
DesiredStates == {StateList[i] : i \in 1..IF MaxDesiredStates < Len(StateList)
                                          THEN MaxDesiredStates ELSE Len(StateList)}

\* The custom-entity blobs a secret can hold under "config".
Blobs ==
    {GarbageBytes,
     ObjectBytes(<<<<"services", BlobValue("s")>>, <<"_info", BlobValue("i")>>,
                   <<"extra", BlobValue("e")>>>>)}

\* What the secret store can answer.
SecretAnswers ==
    {GetSecretError, SecretWith(<< >>)} \cup {SecretWith([k \in {"config"} |-> b]) : b \in Blobs}

\* The deployment configurations: Full-Push or Diff-Apply, reverse sync on
\* or off, and in Full-Push mode no custom-entities secret, a malformed
\* reference or a well-formed one (Diff-Apply never reads the reference).
Configs ==
    {c \in [InMemory : BOOLEAN, EnableReverseSync : BOOLEAN,
            KongCustomEntitiesSecret : {<< >>, <<"name">>, <<"ns", "name">>},
            HasTagSupport : BOOLEAN, FilterTags : {<<"t">>}] :
        c.InMemory \/ c.KongCustomEntitiesSecret = << >>}

-----------------------------------------------------------------------------
(* Rendering on its own: toDeckContent over trees of plugins               *)

\* A plugin whose config carries the entry m, which no schema knows.
MarkedPlugin(name, m) == Plugin(name, [k \in {"m"} |-> m])

\* The plugins a tree is built from: two of one name, one with the
\* scheduling hint set, one named "", one without a name, one whose schema
\* cannot be merged, and one scoped to a service, so that its name and id
\* concatenate to the name before it.
PluginPool ==
    {MarkedPlugin(sa, "1"), MarkedPlugin(sa, "2"),
     [Plugin(sb, << >>) EXCEPT !.RunOn = <<"first">>],
     Plugin(<< >>, << >>),
     [Plugin(<< >>, << >>) EXCEPT !.NameNil = TRUE],
     MarkedPlugin(sab, "1"),
     [MarkedPlugin(sa, "2") EXCEPT !.ServiceID = sb]}

\* The plugin lists of a tree, up to MaxPlugins long.
MaxPlugins == 3
PluginLists == UNION {[1..n -> PluginPool] : n \in 0..MaxPlugins}

\* Where a tree hangs its plugin list.
Places == {"service", "route", "consumer", "top"}

\* The tree with the plugin list at place: one service with a route that
\* sets its redirect code and path handling, one that sets neither and one
\* that sets the code alone, an upstream with an algorithm and one without,
\* one consumer.
RenderTree(place, plugins) ==
    LET at(p) == IF place = p THEN plugins ELSE << >>
    IN  [Services |->
            <<[Name |-> sa, Plugins |-> at("service"),
               Routes |-> <<[Route(sb, <<301>>, << >>, at("route"))
                                EXCEPT !.PathHandling = <<"v1">>],
                            Route(sa, << >>, << >>, << >>),
                            Route(sab, <<308>>, << >>, << >>)>>]>>,
         Plugins |-> at("top"),
         Upstreams |-> <<[Name |-> sb, Algorithm |-> <<"least-connections">>, Targets |-> << >>],
                         [Name |-> sa, Algorithm |-> << >>, Targets |-> << >>]>>,
         Certificates |-> << >>,
         CACertificates |-> << >>,
         Consumers |-> <<Consumer(sa, at("consumer"), << >>)>>]

\* The plugins of a tree that toDeckContent fills: those of services, of
\* routes and at top level.
RECURSIVE FilledPluginsOf(_)
FilledPluginsOf(services) ==
    IF services = << >> THEN {}
    ELSE LET s == Head(services)
         IN  {s.Plugins[i] : i \in 1..Len(s.Plugins)}
             \cup UNION {{s.Routes[j].Plugins[i] : i \in 1..Len(s.Routes[j].Plugins)} :
                            j \in 1..Len(s.Routes)}
             \cup FilledPluginsOf(Tail(services))

\* toDeckContent panics: fillPlugin fails on a plugin with a nil Name and
\* the error is logged with *plugin.Name.
toDeckContentPanics(k8sState) ==
    \E p \in FilledPluginsOf(k8sState.Services)
             \cup {k8sState.Plugins[i] : i \in 1..Len(k8sState.Plugins)} : p.NameNil

\* A call of toDeckContent on RenderTree(place, plugins), the schema
\* service answering or not, before it returns.
RenderCall(place, plugins, schemaUp) ==
    [state |-> RenderTree(place, plugins), place |-> place, plugins |-> plugins,
     schemaUp |-> schemaUp, exit |-> "called", content |-> << >>]

\* toDeckContent returns the document.
RenderReturns ==
    /\ last.exit = "called"
    /\ ~toDeckContentPanics(last.state)
    /\ last' = [last EXCEPT !.exit = "rendered",
                            !.content = toDeckContent(cfg, last.schemaUp, last.state)]
    /\ UNCHANGED <<cfg, runningConfigHash, gateway, settled>>

\* toDeckContent panics on a nil pointer.
RenderPanics ==
    /\ last.exit = "called"
    /\ toDeckContentPanics(last.state)
    /\ last' = [last EXCEPT !.exit = "panic"]
    /\ UNCHANGED <<cfg, runningConfigHash, gateway, settled>>

-----------------------------------------------------------------------------
(* OnUpdate                                                                *)

\* A comparison that never finds two fingerprints equal.
DeepEqualNever(a, b) == FALSE

\* A comparison that takes a nil fingerprint to equal any other.
DeepEqualNilAny(a, b) == a = << >> \/ a = b

\* reflect.DeepEqual on two byte slices.
DeepEqual(a, b) == a = b

\* Before the first invocation.
NoInvocation ==
    [state |-> EmptyState, content |-> toDeckContent([HasTagSupport |-> FALSE], TRUE, EmptyState),
     fetchErr |-> "", custom |-> NilBytes, exit |-> "none", err |-> "",
     steps |-> << >>, config |-> << >>, retry |-> "no", sameRender |-> FALSE,
     stateAfter |-> EmptyState]

\* Lines 47-56: the custom entities, [err, config]; a failure to fetch
\* them is logged and leaves them nil.
CustomEntitiesOf(c, secret) ==
    IF c.InMemory /\ c.KongCustomEntitiesSecret # << >>
    THEN fetchCustomEntities(c, secret)
    ELSE [err |-> "", config |-> NilBytes]

\* Lines 58-64: shaSum, left nil when reverse sync is enabled.
ShaSumOf(c, targetContent, customEntities) ==
    IF ~c.EnableReverseSync THEN generateSHA(targetContent, customEntities)
    ELSE [err |-> FALSE, sum |-> << >>]

\* Lines 70-74: the strategy the deployment mode selects.
Strategy(c, targetContent, customEntities, gw, out) ==
    IF c.InMemory THEN onUpdateInMemoryMode(targetContent, customEntities, gw, out)
    ELSE onUpdateDBMode(targetContent, gw, out)

\* The calls made before a strategy is entered.
StepsBefore(c) ==
    (IF c.InMemory /\ c.KongCustomEntitiesSecret # << >> THEN <<"fetchSecret">> ELSE << >>)
    \o (IF ~c.EnableReverseSync THEN <<"sha">> ELSE << >>)

\* How a run relates to the run before it: the first one, one with
\* another desired state or other custom-entity bytes ("no"), or one with
\* the same of both after a run that returned nil or an error.
Retry(prev, k8sState, customEntities) ==
    IF prev.exit = "none" THEN "first"
    ELSE IF prev.state # k8sState \/ prev.custom # customEntities THEN "no"
    ELSE IF prev.err = "" THEN "afterSuccess"
    ELSE "afterError"

\* What a run leaves: the record of it (exit names the return statement
\* taken, steps the calls made, config the body posted, retry and
\* sameRender how its input and its rendering compare with those of the
\* run before, stateAfter the caller's tree as the run leaves it), the
\* stored fingerprint and the gateway's configuration.
Outcome(exit, err, steps, config, hash, gw, k8sState, targetContent, fetched, retry) ==
    [last |-> [state |-> k8sState, content |-> targetContent, fetchErr |-> fetched.err,
               custom |-> fetched.config, exit |-> exit, err |-> err, steps |-> steps,
               config |-> config, retry |-> retry.kind, sameRender |-> retry.sameRender,
               stateAfter |-> k8sState],
     hash |-> hash, gateway |-> gw]

\* Conclude with the comparison made whether or not reverse sync is enabled.
ConcludeWithoutBypass(c, hash, gw, k8sState, targetContent, fetched, sha, strategy, retry) ==
    IF ~c.EnableReverseSync /\ sha.err
    THEN Outcome("fingerprintError", "sha", StepsBefore(c), << >>, hash, gw,
                 k8sState, targetContent, fetched, retry)
    ELSE IF hash = sha.sum
    THEN Outcome("noChange", "", StepsBefore(c), << >>, hash, gw,
                 k8sState, targetContent, fetched, retry)
    ELSE IF strategy.err # ""
    THEN Outcome("strategyError", strategy.err, StepsBefore(c) \o strategy.steps,
                 strategy.config, hash, strategy.gateway,
                 k8sState, targetContent, fetched, retry)
    ELSE Outcome("synced", "", StepsBefore(c) \o strategy.steps,
                 strategy.config, sha.sum, strategy.gateway,
                 k8sState, targetContent, fetched, retry)

\* Conclude with the fingerprint stored before the strategy's error is
\* looked at.
ConcludeStoringOnError(c, hash, gw, k8sState, targetContent, fetched, sha, strategy, retry) ==
    IF ~c.EnableReverseSync /\ sha.err
    THEN Outcome("fingerprintError", "sha", StepsBefore(c), << >>, hash, gw,
                 k8sState, targetContent, fetched, retry)
    ELSE IF ~c.EnableReverseSync /\ hash = sha.sum
    THEN Outcome("noChange", "", StepsBefore(c), << >>, hash, gw,
                 k8sState, targetContent, fetched, retry)
    ELSE IF strategy.err # ""
    THEN Outcome("strategyError", strategy.err, StepsBefore(c) \o strategy.steps,
                 strategy.config, sha.sum, strategy.gateway,
                 k8sState, targetContent, fetched, retry)
    ELSE Outcome("synced", "", StepsBefore(c) \o strategy.steps,
                 strategy.config, sha.sum, strategy.gateway,
                 k8sState, targetContent, fetched, retry)

\* Conclude with a malformed secret reference returned as an error.
ConcludeFetchFatal(c, hash, gw, k8sState, targetContent, fetched, sha, strategy, retry) ==
    IF fetched.err = "parse"
    THEN Outcome("strategyError", "fetch", <<"fetchSecret">>, << >>, hash, gw,
                 k8sState, targetContent, fetched, retry)
    ELSE IF ~c.EnableReverseSync /\ sha.err
    THEN Outcome("fingerprintError", "sha", StepsBefore(c), << >>, hash, gw,
                 k8sState, targetContent, fetched, retry)
    ELSE IF ~c.EnableReverseSync /\ hash = sha.sum
    THEN Outcome("noChange", "", StepsBefore(c), << >>, hash, gw,
                 k8sState, targetContent, fetched, retry)
    ELSE IF strategy.err # ""
    THEN Outcome("strategyError", strategy.err, StepsBefore(c) \o strategy.steps,
                 strategy.config, hash, strategy.gateway,
                 k8sState, targetContent, fetched, retry)
    ELSE Outcome("synced", "", StepsBefore(c) \o strategy.steps,
                 strategy.config, sha.sum, strategy.gateway,
                 k8sState, targetContent, fetched, retry)

\* Lines 58-81 of OnUpdate, given the rendered document, the custom
\* entities, shaSum and what the selected strategy does.
Conclude(c, hash, gw, k8sState, targetContent, fetched, sha, strategy, retry) ==
    IF ~c.EnableReverseSync /\ sha.err
    THEN Outcome("fingerprintError", "sha", StepsBefore(c), << >>, hash, gw,
                 k8sState, targetContent, fetched, retry)
    ELSE IF ~c.EnableReverseSync /\ DeepEqual(hash, sha.sum)
    THEN Outcome("noChange", "", StepsBefore(c), << >>, hash, gw,
                 k8sState, targetContent, fetched, retry)
    ELSE IF strategy.err # ""
    THEN Outcome("strategyError", strategy.err, StepsBefore(c) \o strategy.steps,
                 strategy.config, hash, strategy.gateway,
                 k8sState, targetContent, fetched, retry)
    ELSE Outcome("synced", "", StepsBefore(c) \o strategy.steps,
                 strategy.config, sha.sum, strategy.gateway,
                 k8sState, targetContent, fetched, retry)

\* OnUpdate from line 58 on.
Sync(c, hash, gw, prev, k8sState, targetContent, fetched, out) ==
    Conclude(c, hash, gw, k8sState, targetContent, fetched,
             ShaSumOf(c, targetContent, fetched.config),
             Strategy(c, targetContent, fetched.config, gw, out),
             [kind |-> Retry(prev, k8sState, fetched.config),
              sameRender |-> prev.content = targetContent])

\* The caller's tree after cleanUpNullsInPluginConfigs ran on the document
\* rendered from it.  The document's consumer plugins are shallow copies of
\* the tree's (lines 378-380), and so are its top-level plugins (line 341),
\* whose Config fillPlugin replaces only when it succeeds: these Config
\* maps are the tree's own, and the nulls are deleted from them in place.
\* The plugins of services and routes are deep copies.
TreeAfterCleanUp(schemaUp, k8sState) ==
    [k8sState EXCEPT
        !.Consumers = CleanOwners(@),
        !.Plugins = [i \in 1..Len(@) |->
                        IF fillPlugin(schemaUp, @[i]).err
                        THEN [@[i] EXCEPT !.Config = DeleteNulls(@)]
                        ELSE @[i]]]

\* The run r with the caller's tree as it leaves it: Full-Push cleans the
\* rendered document (line 217) whenever it is entered; nothing else writes
\* through to the tree.
WithCallerTree(r, c, schemaUp, k8sState) ==
    IF c.InMemory /\ r.last.exit \in {"synced", "strategyError"}
    THEN [r EXCEPT !.last.stateAfter = TreeAfterCleanUp(schemaUp, k8sState)]
    ELSE r

\* One run of OnUpdate on k8sState, with the schema service answering or
\* not (schemaUp), the secret store answering secret and the gateway side
\* ending as out.
Run(c, hash, gw, prev, k8sState, schemaUp, secret, out) ==
    WithCallerTree(Sync(c, hash, gw, prev, k8sState, toDeckContent(c, schemaUp, k8sState),
                        CustomEntitiesOf(c, secret), out),
                   c, schemaUp, k8sState)

\* The gateway-side outcomes possible for a run.
OutcomesFor(c, schemaUp, k8sState) ==
    IF c.InMemory THEN PostOutcomes
    ELSE DBOutcomesFor(toDeckContent(c, schemaUp, k8sState))

\* The secret store is asked only in Full-Push mode with a well-formed
\* secret reference.
SecretAnswersFor(c) ==
    IF c.InMemory /\ c.KongCustomEntitiesSecret # << >>
       /\ ~ParseNameNS(c.KongCustomEntitiesSecret).err
    THEN SecretAnswers ELSE {GetSecretError}

\* The assignments a run r ends with.
Return(r) ==
    /\ last' = r.last
    /\ runningConfigHash' = r.hash
    /\ gateway' = r.gateway
    /\ UNCHANGED <<cfg, settled>>

\* return err after generateSHA failed
OnUpdateFingerprintError(r) == r.last.exit = "fingerprintError" /\ Return(r)

\* "no configuration change, skipping sync to kong"
OnUpdateNoChange(r) == r.last.exit = "noChange" /\ Return(r)

\* return err after the strategy failed
OnUpdateStrategyError(r) == r.last.exit = "strategyError" /\ Return(r)

\* "successfully synced configuration to kong"
OnUpdateSynced(r) == r.last.exit = "synced" /\ Return(r)

\* The four ways OnUpdate returns.
OnUpdateReturns(r) ==
    \/ OnUpdateFingerprintError(r)
    \/ OnUpdateNoChange(r)
    \/ OnUpdateStrategyError(r)
    \/ OnUpdateSynced(r)

\* OnUpdate, called by the sync queue with a desired state; the calls are
\* serialized, so each one is a step.
OnUpdate ==
    \E k8sState \in DesiredStates, schemaUp \in BOOLEAN, secret \in SecretAnswersFor(cfg) :
        \E out \in OutcomesFor(cfg, schemaUp, k8sState) :
            OnUpdateReturns(Run(cfg, runningConfigHash, gateway, last,
                                k8sState, schemaUp, secret, out))

Init ==
    /\ cfg \in Configs
    /\ runningConfigHash = << >>
    /\ gateway = InitialGateway
    /\ last = NoInvocation
    /\ settled = FALSE

Next == OnUpdate

Spec == Init /\ [][Next]_vars

\* toDeckContent on its own, in one deployment.
InitRender ==
    /\ cfg \in {c \in Configs : ~c.InMemory /\ ~c.EnableReverseSync /\ c.HasTagSupport}
    /\ runningConfigHash = << >>
    /\ gateway = InitialGateway
    /\ last \in {RenderCall(place, plugins, schemaUp) :
                    place \in Places, plugins \in PluginLists, schemaUp \in BOOLEAN}
    /\ settled = FALSE

NextRender == RenderReturns \/ RenderPanics

SpecRender == InitRender /\ [][NextRender]_vars

\* OnUpdate under a trigger that keeps calling it, with reverse sync
\* disabled.  At some point after a run the desired state and the custom
\* entities stop changing and the calls to the gateway stop failing
\* (Settle); from then on every call has the desired state and the
\* custom-entity bytes of the run before it, the schema service answers and
\* the gateway applies what it is sent (OnUpdateSettled).  The deployments
\* are those with selector tags and no custom-entities secret, Diff-Apply
\* and Full-Push.
LiveConfigs ==
    {c \in Configs : /\ ~c.EnableReverseSync
                     /\ c.HasTagSupport
                     /\ c.KongCustomEntitiesSecret = << >>}

InitLive ==
    /\ cfg \in LiveConfigs
    /\ runningConfigHash = << >>
    /\ gateway = InitialGateway
    /\ last = NoInvocation
    /\ settled = FALSE

OnUpdateUnsettled == ~settled /\ OnUpdate

Settle ==
    /\ ~settled
    /\ last.exit # "none"
    /\ settled' = TRUE
    /\ UNCHANGED <<cfg, runningConfigHash, gateway, last>>

\* The answers of the secret store that give the custom-entity bytes of
\* the run before.
SameSecretAnswers(c, customEntities) ==
    {secret \in SecretAnswersFor(c) : CustomEntitiesOf(c, secret).config = customEntities}

\* OnUpdate called once more with the desired state of the run before: the
\* run of Run and Sync, statement by statement.
OnUpdateSettled ==
    /\ settled
    /\ \E secret \in SameSecretAnswers(cfg, last.custom) :
       \E targetContent \in {toDeckContent(cfg, TRUE, last.state)} :
       \E fetched \in {CustomEntitiesOf(cfg, secret)} :
       \E sha \in {ShaSumOf(cfg, targetContent, fetched.config)} :
       \E strategy \in {Strategy(cfg, targetContent, fetched.config, gateway, "ok")} :
       \E r \in {Conclude(cfg, runningConfigHash, gateway, last.state, targetContent,
                          fetched, sha, strategy,
                          [kind |-> Retry(last, last.state, fetched.config),
                           sameRender |-> last.content = targetContent])} :
            Return(WithCallerTree(r, cfg, TRUE, last.state))

NextLive == OnUpdateUnsettled \/ Settle \/ OnUpdateSettled

\* The sync queue calls OnUpdate again and again: a call that is possible
\* for ever is made.
LiveSpec == InitLive /\ [][NextLive]_vars /\ WF_vars(OnUpdateSettled)

-----------------------------------------------------------------------------
(* Change detection: skipping, bypassing, failing                          *)

\* The calls of a run that go to the gateway: the dump and the solve of
\* Diff-Apply, the POST of Full-Push.
GatewayCalls(steps) == {steps[i] : i \in 1..Len(steps)} \cap {"dump", "solve", "post"}

\* The configuration the gateway holds once the input of the last run is
\* synced to it in full.
RenderedConfiguration ==
    Strategy(cfg, last.content, last.custom, InitialGateway, "ok").gateway

\* Whether the last run had the desired state, the custom-entity bytes and
\* the rendered document of the run before it.
SameInput == last.retry \in {"afterSuccess", "afterError"} /\ last.sameRender

\* C1: with reverse sync disabled, a run is skipped as "no configuration
\* change" only when the gateway's configuration equals the one rendered
\* from the desired state of that run.
C1_SkippedOnlyWhenGatewayMatches ==
    (~cfg.EnableReverseSync /\ last.exit = "noChange")
        => gateway = RenderedConfiguration

\* C2 as stated: with reverse sync disabled, the run after a successful
\* one, given the same desired state and custom-entity bytes, makes no
\* gateway call, returns nil and leaves the fingerprint as it was.
C2_SameStateSkipped ==
    (~cfg.EnableReverseSync /\ last.retry = "afterSuccess")
        => /\ last.exit = "noChange"
           /\ last.err = ""
           /\ GatewayCalls(last.steps) = {}

\* C2: with reverse sync disabled, the run after a successful one, given
\* the same desired state and custom-entity bytes and rendering the same
\* document (the plugin schema lookups answer as before), makes no gateway
\* call, returns nil and leaves the stored fingerprint what it was: the
\* fingerprint of that document and those bytes.
C2_SameDocumentSkipped ==
    (~cfg.EnableReverseSync /\ last.retry = "afterSuccess" /\ last.sameRender)
        => /\ last.exit = "noChange"
           /\ last.err = ""
           /\ GatewayCalls(last.steps) = {}
           /\ runningConfigHash = generateSHA(last.content, last.custom).sum

\* A run skipped right after a successful run on the same input.
C2_Witness ==
    /\ ~cfg.EnableReverseSync
    /\ last.retry = "afterSuccess"
    /\ last.sameRender
    /\ last.exit = "noChange"
    /\ last.state = FullState

\* C3 as stated: with reverse sync enabled every run makes a gateway call.
C3_ForcedAlwaysCalls ==
    (cfg.EnableReverseSync /\ last.exit # "none") => GatewayCalls(last.steps) # {}

\* C3: with reverse sync enabled no run is skipped or stopped by the
\* fingerprint: every run enters the selected strategy, also one with the
\* input of the successful run before it, and makes a gateway call unless
\* Full-Push fails to render the document before the POST.
C3_ForcedNeverSkipped ==
    (cfg.EnableReverseSync /\ last.exit # "none")
        => /\ last.exit \in {"synced", "strategyError"}
           /\ "sha" \notin {last.steps[i] : i \in 1..Len(last.steps)}
           /\ runningConfigHash = << >>
           /\ GatewayCalls(last.steps) = {}
                => (cfg.InMemory /\ last.err = "render" /\ ~Encodable(last.content))

\* A forced run on the input of the successful run before it, calling the
\* gateway again.
C3_Witness ==
    /\ cfg.EnableReverseSync
    /\ last.retry = "afterSuccess"
    /\ last.sameRender
    /\ GatewayCalls(last.steps) # {}

C5_FirstRunNotSkipped ==
    /\ last.exit = "none" => runningConfigHash = << >>
    /\ last.retry = "first" => last.exit # "noChange"

\* A first run, on the empty desired state, that went to the gateway and
\* stored a fingerprint.
C5_Witness ==
    /\ last.retry = "first"
    /\ last.state = EmptyState
    /\ ~cfg.EnableReverseSync
    /\ last.exit = "synced"
    /\ GatewayCalls(last.steps) # {}
    /\ runningConfigHash # << >>

-----------------------------------------------------------------------------
(* The Full-Push document                                                  *)

\* Whether the last run posted a body to /config.
Posted == cfg.InMemory /\ "post" \in {last.steps[i] : i \in 1..Len(last.steps)}

\* The core document of the last run as onUpdateInMemoryMode marshals it.
CoreDocument ==
    MarshalContent(cleanUpNullsInPluginConfigs([last.content EXCEPT !.Info = << >>])).doc

\* The value a document writes under key k.
ValueAt(doc, k) ==
    doc[CHOOSE i \in 1..Len(doc) :
            doc[i][1] = k /\ \A j \in (i + 1)..Len(doc) : doc[j][1] # k][2]

\* The section the posted body carries under key k, if it comes from the
\* core document.
PostedSection(k) ==
    IF k \in DocKeys(last.config) THEN ValueAt(last.config, k).core ELSE << >>

\* The plugin configs of the posted body.
PostedConfigs ==
    ConfigsOfServices(PostedSection("services"))
    \cup ConfigsOfOwners(PostedSection("consumers"))
    \cup ConfigsOfPlugins(PostedSection("plugins"))

\* C6: the body Full-Push posts holds no null-valued plugin-config entry,
\* in the plugins of services, of routes, of consumers or at top level.
C6_NoNullPosted ==
    Posted => \A c \in PostedConfigs : \A k \in DOMAIN c : c[k] # "null"

C8_BlobIgnoredExactly ==
    (cfg.InMemory /\ last.custom = GarbageBytes /\ last.exit \in {"synced", "strategyError"}
     /\ Encodable(last.content))
        => /\ Posted
           /\ last.err \in {"", "post"}
           /\ DocKeys(last.config) = DocKeys(CoreDocument)
           /\ \A k \in DocKeys(CoreDocument) :
                ValueAt(last.config, k) = ValueAt(CoreDocument, k)

\* C8: a blob that fails to parse does not fail the run: a run that is not
\* skipped and whose core document can be encoded makes the POST, and the
\* body has the keys of the core document and no other, each with the core
\* document's value as decoded into a generic map and encoded again.
C8_BlobIgnored ==
    (cfg.InMemory /\ last.custom = GarbageBytes /\ last.exit # "none"
     /\ Encodable(last.content))
        => /\ last.err \in {"", "post"}
           /\ last.exit \in {"synced", "strategyError"}
                => /\ Posted
                   /\ last.config = MarshalMap(UnmarshalObject(CoreDocument))

\* A run with an unparseable blob that posted the full state and succeeded.
C8_Witness ==
    /\ Posted
    /\ last.custom = GarbageBytes
    /\ last.state = FullState
    /\ last.exit = "synced"

\* C9 as stated, its first half: with a malformed secret reference the
\* run fails.
C9_MalformedRefFails ==
    (cfg.InMemory /\ last.fetchErr = "parse") => last.err # ""

\* C9: whichever way fetching the custom entities fails (malformed
\* reference, secret not fetched, no "config" key), the run goes on without
\* custom entities: it fails only where a run with no secret configured
\* fails, and a body it posts is the core document.
C9_FetchErrorsNotFatal ==
    (cfg.InMemory /\ last.fetchErr # "")
        => /\ last.custom = NilBytes
           /\ Len(last.steps) > 1
           /\ last.steps[1] = "fetchSecret"
           /\ Encodable(last.content) => last.err \in {"", "post"}
           /\ Posted => last.config = CoreDocument

\* A run with a malformed secret reference that posted and succeeded.
C9_Witness ==
    /\ last.fetchErr = "parse"
    /\ Posted
    /\ last.exit = "synced"
    /\ last.state = FullState

-----------------------------------------------------------------------------
(* Order of the rendered document                                          *)

\* Non-decreasing byte-wise order of a sequence of keys.
Sorted(keys) ==
    \A i \in 1..(Len(keys) - 1) : StringsCompare(keys[i], keys[i + 1]) <= 0

NamesOf(seq) == [i \in 1..Len(seq) |-> seq[i].Name]

\* Every sibling collection of a document but the plugins of its consumers.
SortedButConsumerPlugins(content) ==
    /\ Sorted(NamesOf(content.Services))
    /\ \A i \in 1..Len(content.Services) :
        LET s == content.Services[i]
        IN  /\ Sorted(NamesOf(s.Plugins))
            /\ Sorted(NamesOf(s.Routes))
            /\ \A j \in 1..Len(s.Routes) : Sorted(NamesOf(s.Routes[j].Plugins))
    /\ Sorted([i \in 1..Len(content.Plugins) |-> pluginString(content.Plugins[i])])
    /\ Sorted(NamesOf(content.Upstreams))
    /\ \A i \in 1..Len(content.Upstreams) :
        LET t == content.Upstreams[i].Targets
        IN  Sorted([j \in 1..Len(t) |-> t[j].Target])
    /\ Sorted([i \in 1..Len(content.Certificates) |-> content.Certificates[i].Cert])
    /\ Sorted([i \in 1..Len(content.CACertificates) |-> content.CACertificates[i].Cert])
    /\ Sorted([i \in 1..Len(content.Consumers) |-> content.Consumers[i].Username])
    /\ \A i \in 1..Len(content.Consumers) :
        LET c == content.Consumers[i]
        IN  /\ Sorted([j \in 1..Len(c.KeyAuths) |-> c.KeyAuths[j].Key])
            /\ Sorted([j \in 1..Len(c.HMACAuths) |-> c.HMACAuths[j].Username])
            /\ Sorted([j \in 1..Len(c.BasicAuths) |-> c.BasicAuths[j].Username])
            /\ Sorted([j \in 1..Len(c.JWTAuths) |-> c.JWTAuths[j].Key])
            /\ Sorted([j \in 1..Len(c.Oauth2Creds) |-> c.Oauth2Creds[j].ClientID])

ConsumerPluginsSorted(content) ==
    \A i \in 1..Len(content.Consumers) : Sorted(NamesOf(content.Consumers[i].Plugins))

\* C10: in every document toDeckContent produces, every same-type sibling
\* collection is in non-decreasing byte-wise order of its natural key, the
\* plugins of each consumer included.
C10_SiblingsSorted ==
    last.exit # "none"
        => SortedButConsumerPlugins(last.content) /\ ConsumerPluginsSorted(last.content)

-----------------------------------------------------------------------------
(* The rendered document as a function of the tree                         *)

\* The orders a list of siblings can come in.
OrdersOf(seq) ==
    {[i \in 1..Len(seq) |-> seq[f[i]]] :
        f \in {g \in [1..Len(seq) -> 1..Len(seq)] :
                \A i, j \in 1..Len(seq) : g[i] = g[j] => i = j}}

\* The natural key of a plugin at a place.
NaturalKey(place, plugin) == IF place = "top" THEN pluginString(plugin) ELSE plugin.Name

\* C11: a tree that differs from the rendered one only in the order of
\* sibling plugins renders to the same document and the same fingerprint,
\* whatever the order, also when natural keys collide.
C11_OrderOfSiblingsIrrelevant ==
    last.exit = "rendered"
        => \A plugins \in OrdersOf(last.plugins) :
            /\ toDeckContent(cfg, last.schemaUp, RenderTree(last.place, plugins)) = last.content
            /\ generateSHA(toDeckContent(cfg, last.schemaUp, RenderTree(last.place, plugins)),
                           NilBytes)
                = generateSHA(last.content, NilBytes)

\* The plugin list the document holds at a place of RenderTree.
RenderedPlugins(place, content) ==
    IF place = "top" THEN content.Plugins
    ELSE IF place = "consumer" THEN content.Consumers[1].Plugins
    ELSE IF place = "service" THEN content.Services[1].Plugins
    ELSE LET routes == content.Services[1].Routes
         IN  routes[CHOOSE j \in 1..Len(routes) : routes[j].Name = sb].Plugins

\* What tells one plugin from another and rendering leaves alone: its
\* name, the ids that scope it and the config entry its user set.
Identity(plugin) ==
    [Name |-> plugin.Name, NameNil |-> plugin.NameNil,
     ConsumerID |-> plugin.ConsumerID, RouteID |-> plugin.RouteID,
     ServiceID |-> plugin.ServiceID,
     m |-> IF "m" \in DOMAIN plugin.Config THEN plugin.Config["m"] ELSE "null"]

\* The plugins of a list whose natural key is key, in the order of the list.
WithKey(place, plugins, key) ==
    LET same(p) == NaturalKey(place, p) = key
        kept == SelectSeq(plugins, same)
    IN  [i \in 1..Len(kept) |-> Identity(kept[i])]

\* C12: sorting is stable: the plugins of a sibling collection that have
\* equal natural keys (for top-level plugins the concatenation of name and
\* consumer, route and service id) come in the rendered document in the
\* order they have in the input.
C12_SortIsStable ==
    last.exit = "rendered"
        => \A i \in 1..Len(last.plugins) :
            LET key == NaturalKey(last.place, last.plugins[i])
            IN  WithKey(last.place, RenderedPlugins(last.place, last.content), key)
                    = WithKey(last.place, last.plugins, key)

\* Two top-level plugins of different names, the greater name first, whose
\* keys are equal, rendered in the order of the input.
C12_Witness ==
    /\ last.exit = "rendered"
    /\ last.place = "top"
    /\ Len(last.plugins) = 2
    /\ pluginString(last.plugins[1]) = pluginString(last.plugins[2])
    /\ StringsCompare(last.plugins[1].Name, last.plugins[2].Name) > 0
    /\ Identity(last.content.Plugins[1]) = Identity(last.plugins[1])
    /\ Identity(last.content.Plugins[2]) = Identity(last.plugins[2])

-----------------------------------------------------------------------------
(* Default filling while rendering                                         *)

\* Whether fillPlugin fails on a plugin: no name, no schema, or a schema
\* whose defaults cannot be merged.
FillFails(schemaUp, plugin) == fillPlugin(schemaUp, plugin).err

\* The identities of a plugin list, as a bag.
IdentityCount(plugins, id) ==
    Cardinality({i \in 1..Len(plugins) : Identity(plugins[i]) = id})

\* C13: a plugin whose default-fill fails (name empty or missing, schema
\* lookup error, merge error) does not abort rendering: toDeckContent
\* returns a document that holds this plugin and every other entity.
C13_FillFailureNotFatal ==
    (/\ last.exit # "called"
     /\ last.place # "consumer"
     /\ \E i \in 1..Len(last.plugins) : FillFails(last.schemaUp, last.plugins[i]))
        => /\ last.exit = "rendered"
           /\ \A i \in 1..Len(last.plugins) :
                IdentityCount(RenderedPlugins(last.place, last.content),
                              Identity(last.plugins[i]))
                    = IdentityCount(last.plugins, Identity(last.plugins[i]))
           /\ Len(last.content.Services) = Len(last.state.Services)
           /\ Len(last.content.Services[1].Routes) = Len(last.state.Services[1].Routes)
           /\ Len(last.content.Upstreams) = Len(last.state.Upstreams)
           /\ Len(last.content.Consumers) = Len(last.state.Consumers)

\* The element of a sibling list that has the name.
Named(siblings, name) ==
    siblings[CHOOSE i \in 1..Len(siblings) : siblings[i].Name = name]

\* A field as rendered: the input's value when it is set, else the default.
SetOr(field, default) == IF field = << >> THEN <<default>> ELSE field

\* C14: default completion fills only unset fields: every rendered route
\* has the input's redirect status code and path handling when the input set
\* them and 426 and v0 otherwise, every rendered upstream the input's
\* algorithm when set and round-robin otherwise; routes and upstreams are
\* neither added nor dropped.
C14_OnlyUnsetFieldsFilled ==
    last.exit = "rendered"
        => LET inRoutes == last.state.Services[1].Routes
               outRoutes == last.content.Services[1].Routes
               inUpstreams == last.state.Upstreams
               outUpstreams == last.content.Upstreams
           IN  /\ Len(outRoutes) = Len(inRoutes)
               /\ \A i \in 1..Len(inRoutes) :
                    LET out == Named(outRoutes, inRoutes[i].Name)
                    IN  /\ out.HTTPSRedirectStatusCode
                              = SetOr(inRoutes[i].HTTPSRedirectStatusCode, 426)
                        /\ out.PathHandling = SetOr(inRoutes[i].PathHandling, "v0")
                        /\ out.RegexPriority = inRoutes[i].RegexPriority
               /\ Len(outUpstreams) = Len(inUpstreams)
               /\ \A i \in 1..Len(inUpstreams) :
                    Named(outUpstreams, inUpstreams[i].Name).Algorithm
                        = SetOr(inUpstreams[i].Algorithm, "round-robin")

\* A rendered tree with a route and an upstream that keep what the input
\* set, a route and an upstream that get every default, and a route that
\* keeps its code and gets the default path handling.
C14_Witness ==
    /\ last.exit = "rendered"
    /\ Len(last.plugins) = MaxPlugins
    /\ Named(last.content.Services[1].Routes, sb).HTTPSRedirectStatusCode = <<301>>
    /\ Named(last.content.Services[1].Routes, sb).PathHandling = <<"v1">>
    /\ Named(last.content.Services[1].Routes, sa).HTTPSRedirectStatusCode = <<426>>
    /\ Named(last.content.Services[1].Routes, sa).PathHandling = <<"v0">>
    /\ Named(last.content.Services[1].Routes, sab).HTTPSRedirectStatusCode = <<308>>
    /\ Named(last.content.Services[1].Routes, sab).PathHandling = <<"v0">>
    /\ Named(last.content.Upstreams, sb).Algorithm = <<"least-connections">>
    /\ Named(last.content.Upstreams, sa).Algorithm = <<"round-robin">>

\* The input plugins whose schema lookup succeeds.
SchemaFound(schemaUp, plugin) ==
    /\ ~plugin.NameNil
    /\ plugin.Name # << >>
    /\ ~Schema(schemaUp, plugin.Name).err

\* C16: the default filler is applied to every plugin met while rendering:
\* every rendered plugin whose schema lookup succeeds and whose schema can
\* be merged, be it of a service, a route, a consumer or top level, has
\* enabled set, a non-empty protocol list and the schema's defaults in its
\* config.
C16_EveryPluginFilled ==
    last.exit = "rendered"
        => LET rendered == RenderedPlugins(last.place, last.content)
           IN  \A i \in 1..Len(rendered) :
                (SchemaFound(last.schemaUp, rendered[i])
                 /\ SchemaTable[rendered[i].Name].wellFormed)
                    => /\ rendered[i].Enabled # << >>
                       /\ Len(rendered[i].Protocols) > 0
                       /\ DOMAIN SchemaTable[rendered[i].Name].fields
                              \subseteq DOMAIN rendered[i].Config

\* C17: no rendered plugin has the scheduling hint, whatever the input
\* plugin held, whether or not its default filling failed, and wherever it
\* hangs.
C17_RunOnNeverRendered ==
    last.exit = "rendered"
        => LET rendered == RenderedPlugins(last.place, last.content)
           IN  \A i \in 1..Len(rendered) : rendered[i].RunOn = << >>

-----------------------------------------------------------------------------
(* What a run sends and what it leaves behind                              *)

\* C15: the body Full-Push posts never has the info field, whether or not
\* selector tags are configured and were attached when rendering.
C15_NoInfoPosted ==
    Posted => "_info" \notin DocKeys(last.config)

\* C18: a run never changes the caller's tree: after any run, synced,
\* skipped or failed, every entity of the tree has the field values and the
\* sibling order it had before, and rendering the tree again gives the
\* same document.
C18_CallerTreeUnchanged ==
    last.exit # "none"
        => /\ last.stateAfter = last.state
           /\ \A schemaUp \in BOOLEAN :
                toDeckContent(cfg, schemaUp, last.stateAfter)
                    = toDeckContent(cfg, schemaUp, last.state)

\* The steps of Diff-Apply that come before the solver.
StepsBeforeSolve == SubSeq(DBSteps, 1, Len(DBSteps) - 1)

\* The steps of Diff-Apply up to and including step.
StepsUpTo(step) ==
    SubSeq(DBSteps, 1, CHOOSE i \in 1..Len(DBSteps) : DBSteps[i] = step)

\* C19: Diff-Apply runs dump, build current state, render target, build
\* target state, create syncer, solve, in this order; when a step before
\* solve fails the run returns that step's error, having made the steps up
\* to it and no other, the solver is not invoked, and the gateway and the
\* stored fingerprint are as they were.  A run that returns nil made all six.
C19_FailureBeforeSolve ==
    [][(~cfg.InMemory /\ last'.exit \in {"strategyError", "synced"})
        => /\ last'.err \in {StepsBeforeSolve[i] : i \in 1..Len(StepsBeforeSolve)}
                => /\ last'.exit = "strategyError"
                   /\ last'.steps = StepsBefore(cfg) \o StepsUpTo(last'.err)
                   /\ "solve" \notin GatewayCalls(last'.steps)
                   /\ gateway' = gateway
                   /\ runningConfigHash' = runningConfigHash
           /\ last'.err \in {"", "solve"}
                => last'.steps = StepsBefore(cfg) \o DBSteps]_vars

\* A Diff-Apply run that failed building the target state, after a run
\* that synced and stored a fingerprint.
C19_Witness ==
    /\ ~cfg.InMemory
    /\ last.exit = "strategyError"
    /\ last.err = "targetState"
    /\ last.steps = StepsBefore(cfg) \o <<"dump", "currentState", "fileGet", "targetState">>
    /\ runningConfigHash # << >>
    /\ gateway.kind = "config"

-----------------------------------------------------------------------------
(* Convergence under retry                                                 *)

\* The fingerprint of the input of the last run.
FingerprintOfLast == generateSHA(last.content, last.custom).sum

\* The gateway holds the configuration rendered from the input of the last
\* run, the stored fingerprint is that input's, and the run was skipped.
Converged ==
    /\ gateway = RenderedConfiguration
    /\ runningConfigHash = FingerprintOfLast
    /\ last.exit = "noChange"

\* C20: with reverse sync disabled, once the desired state and the custom
\* entities stop changing and the calls to the gateway stop failing, the
\* retried runs lead to a run that syncs the state to the gateway and
\* stores its fingerprint, and the runs after it are skipped; no run is
\* skipped before the gateway holds the state.
C20_EventuallyConverges ==
    (settled /\ Encodable(last.content)) ~> Converged

=============================================================================
